---- MODULE Spec2Model ----
(***************************************************************************)
(* A model of mandelbrot.cpp: the escape-time evaluator (mandelbrot), the  *)
(* viewport progression (setScale), the worker threads (renderThread) and  *)
(* the coordinating render loop (main).                                    *)
(*                                                                         *)
(* Numbers.  The program computes in long double.  A long double value v   *)
(* is represented by the integer v * SCALE (fixed point, SCALE units per   *)
(* 1.0).  Additions and subtractions of representable values are exact; a  *)
(* product or a quotient is rounded to the nearest unit, the way the       *)
(* machine rounds it to the nearest representable value.  A division by    *)
(* 2.0 is exact in binary floating point, so an expression (a*b)/2.0 is    *)
(* rounded once.                                                           *)
(***************************************************************************)
EXTENDS Integers, Sequences, FiniteSets, TLC

\* Units per 1.0 of the fixed-point representation of long double.
SCALE == 4000

\* const int THREADS, MAX_ITER, FRAMES, scaled down to keep the state space finite.
THREADS == 2
MAX_ITER == 8
FRAMES == 3

\* Number of pthread_t values the thread library hands out (and reuses): as many
\* as there can be unjoined threads.
NHANDLES == THREADS

\* Number of setScale calls explored in the specification of setScale alone.
MaxAdvance == 4

(***************************************************************************)
(* Fixed-point arithmetic                                                  *)
(***************************************************************************)
\* n / d rounded to the nearest integer (d > 0, d even), halves rounded up.
RoundDiv(n, d) == (n + d \div 2) \div d

\* a * b in long double.
FMul(a, b) == RoundDiv(a * b, SCALE)

\* a / b in long double (b # 0): (2aS + b) \div 2b is the floor of aS/b + 1/2.
FDiv(a, b) == (2 * a * SCALE + b) \div (2 * b)

\* An int converted to long double.
FInt(n) == n * SCALE

(***************************************************************************)
(* mandelbrot(x0, y0), lines 111-127                                       *)
(***************************************************************************)
\* Mutant of MandelCond: the loop condition without the cap itr < MAX_ITER.
MandelCondNoCap(x, y, itr) == FMul(x, x) + FMul(y, y) < FInt(4)

\* The loop condition of line 115.
MandelCond(x, y, itr) == (FMul(x, x) + FMul(y, y) < FInt(4)) /\ (itr < MAX_ITER)

\* xtmp and ytmp of lines 116-117.
MandelXtmp(x, y, x0) == FMul(x, x) - FMul(y, y) + x0
MandelYtmp(x, y, y0) == FMul(2 * x, y) + y0

\* The test of line 118: the new iterate is the previous one.
MandelSame(x, y, xtmp, ytmp) == (x = xtmp) /\ (y = ytmp)

\* Mutant of MandelBody: the body without the itr++ of line 124.
MandelBodyNoIncr(s, x0, y0) ==
    LET xtmp == MandelXtmp(s.x, s.y, x0)
        ytmp == MandelYtmp(s.x, s.y, y0)
    IN  IF MandelSame(s.x, s.y, xtmp, ytmp)
        THEN [x |-> s.x, y |-> s.y, itr |-> MAX_ITER, brk |-> TRUE]
        ELSE [x |-> xtmp, y |-> ytmp, itr |-> s.itr, brk |-> FALSE]

\* Mutant of MandelBody: the body without the cycle test of lines 118-121.
MandelBodyNoCycle(s, x0, y0) ==
    [x |-> MandelXtmp(s.x, s.y, x0), y |-> MandelYtmp(s.x, s.y, y0),
     itr |-> s.itr + 1, brk |-> FALSE]

\* One execution of the loop body, lines 116-124, on the locals s = [x, y, itr, brk].
MandelBody(s, x0, y0) ==
    LET xtmp == MandelXtmp(s.x, s.y, x0)
        ytmp == MandelYtmp(s.x, s.y, y0)
    IN  IF MandelSame(s.x, s.y, xtmp, ytmp)
        THEN [x |-> s.x, y |-> s.y, itr |-> MAX_ITER, brk |-> TRUE]
        ELSE [x |-> xtmp, y |-> ytmp, itr |-> s.itr + 1, brk |-> FALSE]

\* The locals at function entry, lines 112-114.
MandelEntry == [x |-> 0, y |-> 0, itr |-> 0, brk |-> FALSE]

\* The loop of lines 115-125 from the locals s on; the locals after one body are
\* bound as a value (n) before the next round is taken.
RECURSIVE MandelLoop(_, _, _)
MandelLoop(s, x0, y0) ==
    IF (~s.brk) /\ MandelCond(s.x, s.y, s.itr)
    THEN CHOOSE r \in {MandelLoop(n, x0, y0) : n \in {MandelBody(s, x0, y0)}} : TRUE
    ELSE s.itr

\* The value returned by mandelbrot(x0, y0).
mandelbrot(x0, y0) == MandelLoop(MandelEntry, x0, y0)

(***************************************************************************)
(* map(x, in_min, in_max, out_min, out_max), lines 81-85                   *)
(***************************************************************************)
\* Mutant of map: the offset out_min is not added.
mapNoOffset(x, in_min, in_max, out_min, out_max) ==
    FDiv(FMul(x - in_min, out_max - out_min), in_max - in_min)

map(x, in_min, in_max, out_min, out_max) ==
    FDiv(FMul(x - in_min, out_max - out_min), in_max - in_min) + out_min

(***************************************************************************)
(* State                                                                   *)
(***************************************************************************)
VARIABLES
    pc,        \* position of the coordinating thread in main
    i,         \* main's loop variable i
    FLAGS,     \* the gflags values: orgX, orgY, DX, DY, ZOOM, screen_width
    G,         \* the globals XMIN, XMAX, YMIN, YMAX, SCR_WDTH, SCR_HGHT
    S,         \* the static locals of setScale: count, xmin, xmax, ymin, ymax, zoom
    data,      \* data[s]: the bounds xmin, xmax, ymin, ymax of rendThrData s
    img,       \* img[s][p]: the image array of rendThrData s
    thrds,     \* thrds[s]: the pthread_t main holds for slot s
    thr,       \* thr[h]: the thread the library names h
    screen,    \* the pixels of the SDL surface
    cur,       \* main's drawing position x, y
    shown,     \* history: the frames SDL_Flip presented, in order
    failed,    \* history: some pthread_create has returned an error
    ev,        \* the parameters and locals of one call of mandelbrot
    epc        \* position in that call

vars == <<pc, i, FLAGS, G, S, data, img, thrds, thr, screen, cur, shown, failed, ev, epc>>

Slots == 0 .. THREADS - 1
Handles == 1 .. NHANDLES

\* The bounds of a record with fields xmin, xmax, ymin, ymax.
BoundsOf(r) == <<r.xmin, r.xmax, r.ymin, r.ymax>>

\* No bounds: memory that no worker has written yet.
NoBounds == <<>>

\* What an image array can hold before any worker has written it (new uint64_t[],
\* line 65, leaves it uninitialised): a count below, at or above MAX_ITER.
Garbage == {0, MAX_ITER, 2 * MAX_ITER + 3}

(***************************************************************************)
(* setScale(d), lines 146-170                                              *)
(***************************************************************************)
\* The initial values of XMIN, XMAX, YMIN, YMAX, lines 18-21.
DefaultBounds == [XMIN |-> -10000, XMAX |-> 4000, YMIN |-> -4000, YMAX |-> 4000]

\* The static locals before the first call.
StaticUnset == [init |-> FALSE, count |-> 0, xmin |-> 0, xmax |-> 0,
                ymin |-> 0, ymax |-> 0, zoom |-> 0]

\* Mutant of StaticZoom: the zoom doubled instead of halved.
StaticZoomTwice(z) == z * 2

\* static long double zoom = FLAGS_ZOOM / 2.0, line 155.
StaticZoom(z) == z \div 2

\* Mutant of StaticInit: the locals are not static and start over at every call.
StaticInitEveryCall(s, g, f) ==
    [init |-> TRUE, count |-> 0, xmin |-> g.XMIN, xmax |-> g.XMAX,
     ymin |-> g.YMIN, ymax |-> g.YMAX, zoom |-> f.ZOOM \div 2]

\* The static locals as the first call initialises them, lines 150-155.
StaticInit(s, g, f) ==
    IF s.init THEN s
    ELSE [init |-> TRUE, count |-> 0, xmin |-> g.XMIN, xmax |-> g.XMAX,
          ymin |-> g.YMIN, ymax |-> g.YMAX, zoom |-> StaticZoom(f.ZOOM)]

\* Mutant of ScaleStep: the step without the division by 2.0.
ScaleStepNoHalf(lo, hi, zoom) == RoundDiv((hi - lo) * zoom, SCALE)

\* xsca and ysca, lines 156-157: (delta * zoom) / 2.0.
ScaleStep(lo, hi, zoom) == RoundDiv((hi - lo) * zoom, 2 * SCALE)

\* The static locals after one call, lines 150-162.
SetScaleStatics(s, g, f) ==
    LET t    == StaticInit(s, g, f)
        xsca == ScaleStep(t.xmin, t.xmax, t.zoom)
        ysca == ScaleStep(t.ymin, t.ymax, t.zoom)
    IN  [t EXCEPT !.xmin = t.xmin + xsca, !.xmax = t.xmax - xsca,
                  !.ymin = t.ymin + ysca, !.ymax = t.ymax - ysca,
                  !.count = t.count + 1]

\* What the call stores into *d, lines 163-166.
SetScaleData(t) == [xmin |-> t.xmin, xmax |-> t.xmax, ymin |-> t.ymin, ymax |-> t.ymax]

\* setScale(&data[s]).
setScale(s) ==
    LET t == SetScaleStatics(S, G, FLAGS)
    IN  /\ S' = t
        /\ data' = [data EXCEPT ![s] = SetScaleData(t)]

(***************************************************************************)
(* Values the variables of a specification that does not use them hold.    *)
(***************************************************************************)
NoFlags == [orgX |-> 0, orgY |-> 0, DX |-> 0, DY |-> 0, ZOOM |-> 0, screen_width |-> 0]
NoData == [s \in Slots |-> [xmin |-> 0, xmax |-> 0, ymin |-> 0, ymax |-> 0]]
NoThread == [st |-> "free", slot |-> 0, px |-> 0, py |-> 0]
NoCall == [x0 |-> 0, y0 |-> 0, x |-> 0, y |-> 0, itr |-> 0, brk |-> FALSE, loops |-> 0]

\* The variables main's threads own, before main has allocated anything.
InitThreads ==
    /\ i = 0
    /\ img = [s \in Slots |-> <<>>]
    /\ thrds = [s \in Slots |-> 0]
    /\ thr = [h \in Handles |-> NoThread]
    /\ screen = <<>>
    /\ cur = [x |-> 0, y |-> 0]
    /\ shown = <<>>
    /\ failed = FALSE

(***************************************************************************)
(* SpecScale: setScale called repeatedly from arbitrary starting bounds    *)
(***************************************************************************)
\* Starting intervals [lo, hi] with lo < hi, wide and narrow.
ScaleIntervals == {<<-10000, 4000>>, <<-4000, 4000>>, <<-3001, -3000>>, <<0, 2>>, <<7, 10>>, <<-50, 51>>}

\* Values of FLAGS_ZOOM in (0, 1).
ScaleZooms == {8, 80, 200, 2000, 3600, 3998}

InitScale ==
    /\ pc = "setScale"
    /\ \E z \in ScaleZooms : FLAGS = [NoFlags EXCEPT !.ZOOM = z]
    /\ \E X \in ScaleIntervals, Y \in ScaleIntervals :
          G = [XMIN |-> X[1], XMAX |-> X[2], YMIN |-> Y[1], YMAX |-> Y[2],
               SCR_WDTH |-> 0, SCR_HGHT |-> 0]
    /\ S = StaticUnset
    /\ data = NoData
    /\ InitThreads
    /\ ev = NoCall
    /\ epc = "idle"

\* One call setScale(&data[s]).
ScaleCall ==
    /\ pc = "setScale"
    /\ S.count < MaxAdvance
    /\ \E s \in Slots : setScale(s)
    /\ UNCHANGED <<pc, i, FLAGS, G, img, thrds, thr, screen, cur, shown, failed, ev, epc>>

NextScale == ScaleCall

SpecScale == InitScale /\ [][NextScale]_vars

(***************************************************************************)
(* SpecEval: one call of mandelbrot, executed statement by statement       *)
(***************************************************************************)
\* Coordinates the call is made with.
EvalXs == {-12000, -8000, -7000, -4000, -3000, -400, 0, 200, 400, 1000, 4000, 5660, 8000, 12000}
EvalYs == {-8000, -5660, -4000, -200, 0, 200, 2000, 4000, 8000}

InitEval ==
    /\ pc = "mandelbrot"
    /\ FLAGS = NoFlags
    /\ G = [XMIN |-> 0, XMAX |-> 0, YMIN |-> 0, YMAX |-> 0, SCR_WDTH |-> 0, SCR_HGHT |-> 0]
    /\ S = StaticUnset
    /\ data = NoData
    /\ InitThreads
    /\ \E x0 \in EvalXs, y0 \in EvalYs : ev = [NoCall EXCEPT !.x0 = x0, !.y0 = y0]
    /\ epc = "while"

\* The while condition, line 115: enter the body or leave the loop.
EvalTest ==
    /\ epc = "while"
    /\ epc' = IF MandelCond(ev.x, ev.y, ev.itr) THEN "body" ELSE "return"
    /\ UNCHANGED <<pc, i, FLAGS, G, S, data, img, thrds, thr, screen, cur, shown, failed, ev>>

\* The loop body, lines 116-124; the break of line 120 leaves the loop.
EvalBody ==
    /\ epc = "body"
    /\ LET n == MandelBody(ev, ev.x0, ev.y0)
       IN  /\ ev' = [ev EXCEPT !.x = n.x, !.y = n.y, !.itr = n.itr, !.brk = n.brk,
                               !.loops = ev.loops + 1]
           /\ epc' = IF n.brk THEN "return" ELSE "while"
    /\ UNCHANGED <<pc, i, FLAGS, G, S, data, img, thrds, thr, screen, cur, shown, failed>>

NextEval == EvalTest \/ EvalBody

SpecEval == InitEval /\ [][NextEval]_vars

(***************************************************************************)
(* main, lines 172-235, and renderThread, lines 133-144                    *)
(***************************************************************************)
\* The command lines the program is started with: the defaults at a small width,
\* and one with negative diameters (gflags accepts any double for DX and DY).
MainFlags ==
    {[orgX |-> -3000, orgY |-> 0, DX |-> 14000, DY |-> 8000, ZOOM |-> 80,
      screen_width |-> 2],
     [orgX |-> -8000, orgY |-> -4000, DX |-> -16000, DY |-> -8000, ZOOM |-> 2000,
      screen_width |-> 2]}

\* Positions at which the process has ended.
Ended == {"abort", "exit0", "exit1", "crashed"}

\* The cells of an image array and of the screen.
Cells == 0 .. G.SCR_WDTH * G.SCR_HGHT - 1

\* The slot each statement of the render loop addresses with i % THREADS.
JoinSlotNext(k) == (k + 1) % THREADS
JoinSlot(k) == k % THREADS
DrawSlotNext(k) == (k + 1) % THREADS
DrawSlot(k) == k % THREADS
ScaleSlotNext(k) == (k + 1) % THREADS
ScaleSlot(k) == k % THREADS
CreateSlotNext(k) == (k + 1) % THREADS
CreateSlot(k) == k % THREADS

Init ==
    /\ pc = "parse"
    /\ FLAGS \in MainFlags
    /\ G = [XMIN |-> DefaultBounds.XMIN, XMAX |-> DefaultBounds.XMAX,
            YMIN |-> DefaultBounds.YMIN, YMAX |-> DefaultBounds.YMAX,
            SCR_WDTH |-> 0, SCR_HGHT |-> 0]
    /\ S = StaticUnset
    /\ data = NoData
    /\ InitThreads
    /\ ev = NoCall
    /\ epc = "idle"

\* SCR_HGHT = ((double)SCR_WDTH / DX) * DY, truncated to an integer, line 183.
DerivedHeight(f) == FMul(FDiv(FInt(f.screen_width), f.DX), f.DY) \div SCALE

\* Lines 179-193: the assertions, the derived globals, the buffers and the surface.
Parse ==
    /\ pc = "parse"
    /\ IF ~(G.XMIN < G.XMAX /\ G.YMIN < G.YMAX)
       THEN /\ pc' = "abort"
            /\ UNCHANGED <<G, img, screen>>
       ELSE LET w == FLAGS.screen_width
                h == DerivedHeight(FLAGS)
            IN  /\ G' = [XMIN |-> FLAGS.orgX - FLAGS.DX \div 2,
                         XMAX |-> FLAGS.orgX + FLAGS.DX \div 2,
                         YMIN |-> FLAGS.orgY - FLAGS.DY \div 2,
                         YMAX |-> FLAGS.orgY + FLAGS.DY \div 2,
                         SCR_WDTH |-> w, SCR_HGHT |-> h]
                /\ \E v \in Garbage :
                      img' = [s \in Slots |->
                                [p \in 0 .. w * h - 1 |->
                                   [itr |-> v, b |-> NoBounds, at |-> <<>>]]]
                /\ screen' = [p \in 0 .. w * h - 1 |-> [idx |-> 0, b |-> NoBounds]]
                /\ pc' = "start_scale"
    /\ UNCHANGED <<i, FLAGS, S, data, thrds, thr, cur, shown, failed, ev, epc>>

\* pthread_create(&thrds[s], NULL, renderThread, &data[s]) returns 0: the library
\* names the new thread by a pthread_t that names no unjoined thread.
CreateOk(s) ==
    /\ \E h \in Handles :
          /\ thr[h].st = "free"
          /\ thr' = [thr EXCEPT ![h] = [st |-> "run", slot |-> s, px |-> 0, py |-> 0]]
          /\ thrds' = [thrds EXCEPT ![s] = h]
    /\ UNCHANGED failed

\* pthread_create returns an error: no thread, and *thread holds anything.
CreateFail(s) ==
    /\ \E v \in {0} \cup Handles : thrds' = [thrds EXCEPT ![s] = v]
    /\ failed' = TRUE
    /\ UNCHANGED thr

\* Line 196 of the startup loop.
StartScale ==
    /\ pc = "start_scale"
    /\ setScale(i)
    /\ pc' = "start_create"
    /\ UNCHANGED <<i, FLAGS, G, img, thrds, thr, screen, cur, shown, failed, ev, epc>>

\* Lines 197-200 and the loop control of line 195.
StartCreate ==
    /\ pc = "start_create"
    /\ CreateOk(i) \/ CreateFail(i)
    /\ IF i + 1 < THREADS
       THEN i' = i + 1 /\ pc' = "start_scale"
       ELSE i' = 0 /\ pc' = "join"
    /\ UNCHANGED <<FLAGS, G, S, data, img, screen, cur, shown, ev, epc>>

\* The pthread_t names a thread that was created and not joined yet.
Joinable(h) == h \in Handles /\ thr[h].st # "free"

\* Mutant of JoinWait: the call returns without waiting for the thread to end.
JoinNoWait(h) ==
    /\ Joinable(h)
    /\ thr' = IF thr[h].st = "done" THEN [thr EXCEPT ![h] = NoThread] ELSE thr

\* pthread_join(h, NULL) on a joinable thread: returns once the thread has ended.
JoinWait(h) ==
    /\ Joinable(h)
    /\ thr[h].st = "done"
    /\ thr' = [thr EXCEPT ![h] = NoThread]

\* Line 203: pthread_join(thrds[i % THREADS], NULL), then SDL_LockSurface.
Join ==
    /\ pc = "join"
    /\ i < FRAMES
    /\ JoinWait(thrds[JoinSlot(i)])
    /\ pc' = "draw"
    /\ cur' = [x |-> 0, y |-> 0]
    /\ UNCHANGED <<i, FLAGS, G, S, data, img, thrds, screen, shown, failed, ev, epc>>

\* Line 203 on a pthread_t that names no joinable thread (undefined behaviour):
\* the call returns an error at once, or the process dies.
JoinInvalid ==
    /\ pc = "join"
    /\ i < FRAMES
    /\ ~Joinable(thrds[JoinSlot(i)])
    /\ \/ pc' = "draw" /\ cur' = [x |-> 0, y |-> 0]
       \/ pc' = "crashed" /\ UNCHANGED cur
    /\ UNCHANGED <<i, FLAGS, G, S, data, img, thrds, thr, screen, shown, failed, ev, epc>>

\* Mutant of ColorIndex: the stored count indexes the table as it is.
ColorIndexNoMod(v) == v

\* Line 211: the index into colorTable, data[i % THREADS](x, y) % MAX_ITER.
ColorIndex(v) == v % MAX_ITER

\* Lines 206-213: one put_px of the drawing loops (x outer, y inner).
Draw ==
    /\ pc = "draw"
    /\ LET c == img[DrawSlot(i)][cur.x * G.SCR_HGHT + cur.y]
       IN  screen' = [screen EXCEPT ![cur.y * G.SCR_WDTH + cur.x] =
                                       [idx |-> ColorIndex(c.itr), b |-> c.b]]
    /\ IF cur.y + 1 < G.SCR_HGHT
       THEN cur' = [cur EXCEPT !.y = cur.y + 1] /\ pc' = "draw"
       ELSE IF cur.x + 1 < G.SCR_WDTH
            THEN cur' = [x |-> cur.x + 1, y |-> 0] /\ pc' = "draw"
            ELSE cur' = cur /\ pc' = "flip"
    /\ UNCHANGED <<i, FLAGS, G, S, data, img, thrds, thr, shown, failed, ev, epc>>

\* Lines 214-219: SDL_Flip presents the frame, or fails and main returns 1.
Flip ==
    /\ pc = "flip"
    /\ \/ /\ shown' = Append(shown, [frame |-> i, slot |-> DrawSlot(i),
                                     bounds |-> {screen[p].b : p \in Cells}])
          /\ pc' = "rescale"
       \/ /\ pc' = "exit1"
          /\ UNCHANGED shown
    /\ UNCHANGED <<i, FLAGS, G, S, data, img, thrds, thr, screen, cur, failed, ev, epc>>

\* Line 221.
Rescale ==
    /\ pc = "rescale"
    /\ setScale(ScaleSlot(i))
    /\ pc' = "create"
    /\ UNCHANGED <<i, FLAGS, G, img, thrds, thr, screen, cur, shown, failed, ev, epc>>

\* Lines 222-227 and the i++ of line 202.
Recreate ==
    /\ pc = "create"
    /\ CreateOk(CreateSlot(i)) \/ CreateFail(CreateSlot(i))
    /\ i' = i + 1
    /\ pc' = "join"
    /\ UNCHANGED <<FLAGS, G, S, data, img, screen, cur, shown, ev, epc>>

\* The render loop ends after FRAMES frames, line 202.
LoopEnd ==
    /\ pc = "join"
    /\ i = FRAMES
    /\ i' = 0
    /\ pc' = "drain"
    /\ UNCHANGED <<FLAGS, G, S, data, img, thrds, thr, screen, cur, shown, failed, ev, epc>>

\* Mutant of Drain: the final loop counts the slots without joining them.
DrainNoJoin ==
    /\ pc = "drain"
    /\ i < THREADS
    /\ i' = i + 1
    /\ UNCHANGED <<pc, FLAGS, G, S, data, img, thrds, thr, screen, cur, shown, failed, ev, epc>>

\* Lines 229-232: pthread_join(thrds[i], NULL) for every slot.
Drain ==
    /\ pc = "drain"
    /\ i < THREADS
    /\ JoinWait(thrds[i])
    /\ i' = i + 1
    /\ UNCHANGED <<pc, FLAGS, G, S, data, img, thrds, screen, cur, shown, failed, ev, epc>>

\* Line 231 on a pthread_t that names no joinable thread.
DrainInvalid ==
    /\ pc = "drain"
    /\ i < THREADS
    /\ ~Joinable(thrds[i])
    /\ \/ i' = i + 1 /\ UNCHANGED pc
       \/ pc' = "crashed" /\ UNCHANGED i
    /\ UNCHANGED <<FLAGS, G, S, data, img, thrds, thr, screen, cur, shown, failed, ev, epc>>

\* Lines 233-235: delete[] data, SDL_Quit, and main returns 0.
Teardown ==
    /\ pc = "drain"
    /\ i = THREADS
    /\ pc' = "exit0"
    /\ UNCHANGED <<i, FLAGS, G, S, data, img, thrds, thr, screen, cur, shown, failed, ev, epc>>

\* Lines 138-140 of renderThread: one cell of the image, then the loop counters.
WorkerPixel(h) ==
    /\ pc \notin Ended
    /\ thr[h].st = "run"
    /\ thr[h].py < G.SCR_HGHT
    /\ LET t  == thr[h]
           d  == data[t.slot]
           x0 == map(FInt(t.px), FInt(0), FInt(G.SCR_WDTH), d.xmin, d.xmax)
           y0 == map(FInt(t.py), FInt(0), FInt(G.SCR_HGHT), d.ymin, d.ymax)
       IN  /\ img' = [img EXCEPT ![t.slot][t.px * G.SCR_HGHT + t.py] =
                                   [itr |-> mandelbrot(x0, y0), b |-> BoundsOf(d),
                                    at |-> <<x0, y0>>]]
           /\ thr' = [thr EXCEPT ![h] =
                        IF t.px + 1 < G.SCR_WDTH
                        THEN [t EXCEPT !.px = t.px + 1]
                        ELSE [t EXCEPT !.px = 0, !.py = t.py + 1]]
    /\ UNCHANGED <<pc, i, FLAGS, G, S, data, thrds, screen, cur, shown, failed, ev, epc>>

\* Mutant of WorkerExit: the worker advances the progression for its own slot
\* before it ends.
WorkerExitAdvances(h) ==
    /\ pc \notin Ended
    /\ thr[h].st = "run"
    /\ thr[h].py >= G.SCR_HGHT
    /\ thr' = [thr EXCEPT ![h].st = "done"]
    /\ setScale(thr[h].slot)
    /\ UNCHANGED <<pc, i, FLAGS, G, img, thrds, screen, cur, shown, failed, ev, epc>>

\* Mutant of WorkerExit: the worker waits for one row more than the image has.
WorkerExitOffByOne(h) ==
    /\ pc \notin Ended
    /\ thr[h].st = "run"
    /\ thr[h].py > G.SCR_HGHT
    /\ thr' = [thr EXCEPT ![h].st = "done"]
    /\ UNCHANGED <<pc, i, FLAGS, G, S, data, img, thrds, screen, cur, shown, failed, ev, epc>>

\* Line 143: pthread_exit after the last row.
WorkerExit(h) ==
    /\ pc \notin Ended
    /\ thr[h].st = "run"
    /\ thr[h].py >= G.SCR_HGHT
    /\ thr' = [thr EXCEPT ![h].st = "done"]
    /\ UNCHANGED <<pc, i, FLAGS, G, S, data, img, thrds, screen, cur, shown, failed, ev, epc>>

Next ==
    \/ Parse
    \/ StartScale
    \/ StartCreate
    \/ Join
    \/ JoinInvalid
    \/ Draw
    \/ Flip
    \/ Rescale
    \/ Recreate
    \/ LoopEnd
    \/ Drain
    \/ DrainInvalid
    \/ Teardown
    \/ \E h \in Handles : WorkerPixel(h) \/ WorkerExit(h)

Spec == Init /\ [][Next]_vars

(***************************************************************************)
(* The program when every pthread_create and every SDL_Flip succeeds, with *)
(* the scheduler giving every thread that can run a turn.                  *)
(***************************************************************************)
\* The step leaves no failed creation and no failed present behind.
Succeeds == ~failed' /\ pc' # "exit1"

\* A step of main, lines 179-235, in which the calls it makes succeed.
MainLive ==
    /\ \/ Parse
       \/ StartScale
       \/ StartCreate
       \/ Join
       \/ JoinInvalid
       \/ Draw
       \/ Flip
       \/ Rescale
       \/ Recreate
       \/ LoopEnd
       \/ Drain
       \/ DrainInvalid
       \/ Teardown
    /\ Succeeds

\* A step of the worker thread with handle h, lines 133-144.
WorkerLive(h) == WorkerPixel(h) \/ WorkerExit(h)

NextLive == MainLive \/ \E h \in Handles : WorkerLive(h)

SpecLive ==
    /\ Init
    /\ [][NextLive]_vars
    /\ WF_vars(MainLive)
    /\ \A h \in Handles : WF_vars(WorkerLive(h))

(***************************************************************************)
(* Claims about mandelbrot (checked under SpecEval)                        *)
(***************************************************************************)
\* The point lies on or outside the circle of radius 2, in exact arithmetic.
OutsideExact(x0, y0) == x0 * x0 + y0 * y0 >= 4 * SCALE * SCALE

\* The point fails the test of line 115 as the program computes it.
OutsideComputed(x0, y0) == ~(FMul(x0, x0) + FMul(y0, y0) < FInt(4))

\* C8 as stated: for every (x0,y0) with x0^2 + y0^2 >= 4, mandelbrot returns 0.
C8_Original == (epc = "return" /\ OutsideExact(ev.x0, ev.y0)) => ev.itr = 0

\* C8 amended: for every (x0,y0) with x0^2 + y0^2 >= 4 (as the loop test computes
\* it) mandelbrot returns 1: the first test is made on z = 0, the body runs once.
C8_ReturnsOne ==
    (epc = "return" /\ OutsideComputed(ev.x0, ev.y0)) => (ev.itr = 1 /\ ev.loops = 1)

C8_Witness == epc = "return" /\ OutsideComputed(ev.x0, ev.y0) /\ ev.y0 # 0 /\ ev.x0 # 0

\* C9: the evaluator executes the loop body at most MAX_ITER times and returns
\* a count in 0 .. MAX_ITER, on the cycle-detection path too.
C9_Bounded ==
    /\ ev.loops <= MAX_ITER
    /\ ev.itr \in 0 .. MAX_ITER
    /\ epc \in {"while", "body", "return"}
    /\ (epc = "return" /\ ev.brk) => ev.itr = MAX_ITER

C9_Witness == epc = "return" /\ ~ev.brk /\ ev.loops = MAX_ITER /\ ev.itr = MAX_ITER

\* C10: mandelbrot(0,0) returns MAX_ITER; whenever the body computes an iterate
\* identical to the previous one the call returns MAX_ITER without iterating further.
C10_CycleReturnsMax ==
    /\ [](epc = "return" /\ ev.x0 = 0 /\ ev.y0 = 0 => ev.itr = MAX_ITER /\ ev.loops = 1)
    /\ [][(epc = "body" /\ MandelXtmp(ev.x, ev.y, ev.x0) = ev.x
                        /\ MandelYtmp(ev.x, ev.y, ev.y0) = ev.y)
            => (epc' = "return" /\ ev'.itr = MAX_ITER /\ ev'.x = ev.x /\ ev'.y = ev.y)]_vars

C10_Witness == epc = "return" /\ ev.brk /\ ev.loops >= 3

(***************************************************************************)
(* Claims about setScale (checked under SpecScale)                         *)
(***************************************************************************)
\* The bounds the progression holds: the statics, or XMIN .. YMAX before the first call.
Stored == StaticInit(S, G, FLAGS)

\* A step of the model is a call of setScale.
IsAdvance == S'.count = Stored.count + 1

\* Some slot received exactly the bounds now stored, the other slots are untouched.
CopiedToSlot ==
    \E s \in Slots :
        /\ data'[s] = [xmin |-> S'.xmin, xmax |-> S'.xmax, ymin |-> S'.ymin, ymax |-> S'.ymax]
        /\ \A u \in Slots \ {s} : data'[u] = data[u]

\* The new stored bounds are the old ones moved inwards by hx and hy.
MovedBy(hx, hy) ==
    /\ S'.xmin = Stored.xmin + hx
    /\ S'.xmax = Stored.xmax - hx
    /\ S'.ymin = Stored.ymin + hy
    /\ S'.ymax = Stored.ymax - hy

\* The progression starts at (-2.5, 1.0) with the zoom flag 0.02 and has not advanced.
AtExampleStart == ~S.init /\ G.XMIN = -10000 /\ G.XMAX = 4000 /\ FLAGS.ZOOM = 80

Inside(a, b, c, d) == c <= a /\ b <= d

\* C7 as stated: after every advance the new interval on each axis is strictly
\* contained in the previous one with the same midpoint, and the bounds never invert.
C7_Original ==
    [][IsAdvance =>
         /\ Stored.xmin < S'.xmin /\ S'.xmax < Stored.xmax
         /\ Stored.ymin < S'.ymin /\ S'.ymax < Stored.ymax
         /\ S'.xmin + S'.xmax = Stored.xmin + Stored.xmax
         /\ S'.ymin + S'.ymax = Stored.ymin + Stored.ymax
         /\ S'.xmin < S'.xmax /\ S'.ymin < S'.ymax]_vars

\* C7 amended: after every advance the new interval on each axis is contained in the
\* previous one, with the same midpoint, strictly so whenever the computed step is
\* not rounded away, and the bounds never invert; once the step rounds away an
\* advance leaves that axis unchanged.
C7_ContainedNeverInverted ==
    [][IsAdvance =>
         /\ Inside(S'.xmin, S'.xmax, Stored.xmin, Stored.xmax)
         /\ Inside(S'.ymin, S'.ymax, Stored.ymin, Stored.ymax)
         /\ S'.xmin + S'.xmax = Stored.xmin + Stored.xmax
         /\ S'.ymin + S'.ymax = Stored.ymin + Stored.ymax
         /\ (4 * SCALE <= (Stored.xmax - Stored.xmin) * FLAGS.ZOOM
                => Stored.xmin < S'.xmin /\ S'.xmax < Stored.xmax)
         /\ (4 * SCALE <= (Stored.ymax - Stored.ymin) * FLAGS.ZOOM
                => Stored.ymin < S'.ymin /\ S'.ymax < Stored.ymax)
         /\ S'.xmin < S'.xmax /\ S'.ymin < S'.ymax]_vars

\* The progression has advanced several times, strictly at first and then not at all.
C7_Witness ==
    /\ S.init /\ S.count = MaxAdvance
    /\ G.XMIN < S.xmin /\ S.xmin < S.xmax /\ S.xmax < G.XMAX
    /\ S.ymin = G.YMIN /\ S.ymax = G.YMAX

(***************************************************************************)
(* Claims about the pipeline (checked under Spec)                          *)
(***************************************************************************)
\* The threads created for slot s and not joined yet: its computations in flight.
InFlight(s) == {h \in Handles : thr[h].st # "free" /\ thr[h].slot = s}

\* The statics after n calls of setScale: element n of the Viewport Progression.
RECURSIVE Progression(_)
Progression(n) ==
    IF n = 0 THEN StaticInit(StaticUnset, G, FLAGS)
    ELSE LET t == Progression(n - 1)
             xsca == RoundDiv((t.xmax - t.xmin) * (FLAGS.ZOOM \div 2), 2 * SCALE)
             ysca == RoundDiv((t.ymax - t.ymin) * (FLAGS.ZOOM \div 2), 2 * SCALE)
         IN  [t EXCEPT !.xmin = t.xmin + xsca, !.xmax = t.xmax - xsca,
                       !.ymin = t.ymin + ysca, !.ymax = t.ymax - ysca]

\* Every cell of the k-th presented frame was computed for element n.
FrameIs(k, n) == shown[k].bounds = {BoundsOf(Progression(n))}

\* C1 as stated: when every creation and present succeeds, displayed frame k
\* (k = 0, 1, ...) has the bounds of element THREADS + k of the progression,
\* whether elements are counted from the first advance as 1 or as 0.
C1_Original ==
    ~failed => \A k \in 1 .. Len(shown) :
                  FrameIs(k, THREADS + (k - 1)) \/ FrameIs(k, THREADS + (k - 1) + 1)

\* C1 amended: when every creation and present succeeds, displayed frame k has the
\* bounds produced by advance number k + 1 (the first advance for frame 0), for
\* every interleaving of the workers.
C1_FrameKIsAdvanceKPlus1 ==
    ~failed => \A k \in 1 .. Len(shown) : shown[k].frame = k - 1 /\ FrameIs(k, k)

C1_Witness == ~failed /\ Len(shown) = FRAMES /\ pc = "exit0"

\* The bounds that one advance makes of the bounds b.
AdvanceOf(b) ==
    LET xsca == RoundDiv((b[2] - b[1]) * (FLAGS.ZOOM \div 2), 2 * SCALE)
        ysca == RoundDiv((b[4] - b[3]) * (FLAGS.ZOOM \div 2), 2 * SCALE)
    IN  <<b[1] + xsca, b[2] - xsca, b[3] + ysca, b[4] - ysca>>

\* Each presented frame was computed for the step after the previous frame's step.
InProgressionOrder ==
    \A k \in 1 .. Len(shown) - 1 :
        \E b \in shown[k].bounds :
            /\ b # NoBounds
            /\ shown[k].bounds = {b}
            /\ shown[k + 1].bounds = {AdvanceOf(b)}
            /\ AdvanceOf(b) # b

C3_SlotExclusive ==
    /\ \A s \in Slots : Cardinality(InFlight(s)) <= 1
    /\ pc = "start_create" => InFlight(i) = {}
    /\ pc = "create" => InFlight(i % THREADS) = {}

C3_Witness == pc = "create" /\ i >= THREADS /\ \E s \in Slots : InFlight(s) # {}

\* C4: while main reads slot s's image (the drawing loops) no worker of slot s
\* exists that has not been joined, so none is writing it.
C4_NoReadWhileWriting ==
    pc \in {"draw", "flip"} => InFlight(i % THREADS) = {}

C4_Witness ==
    /\ pc = "draw" /\ cur.x > 0
    /\ img[i % THREADS][0].b # NoBounds
    /\ \E h \in Handles : thr[h].st = "run" /\ thr[h].px > 0

\* Main is in its render loop, between the startup loop and the final joins.
InRenderLoop == pc \in {"join", "draw", "flip", "rescale", "create"}

\* Slot s has been joined and not re-issued yet in the current iteration.
BeingReissued(s) == pc \in {"draw", "flip", "rescale", "create"} /\ s = i % THREADS

\* Every slot has exactly one computation in flight, except the slot being re-issued.
OneInFlight ==
    InRenderLoop =>
        \A s \in Slots : Cardinality(InFlight(s)) = IF BeingReissued(s) THEN 0 ELSE 1

WrittenCells(s) == {p \in DOMAIN img[s] : img[s][p].b # NoBounds}

\* The cell of pixel (px, py), as operator() of rendThrData lays it out.
CellOf(px, py) == px * G.SCR_HGHT + py

\* v is n/m of the way from lo to hi, to the nearest unit.
IsFraction(v, n, m, lo, hi) ==
    LET e == m * (v - lo) - n * (hi - lo)
    IN  2 * e <= m /\ -2 * e <= m

\* The cell was computed at the given corner of the bounds the worker read.
AtCorner(c, ix, iy) == c.at = <<c.b[ix], c.b[iy]>>

\* C11 as stated: in every frame a worker evaluates pixel (0,0) at (xmin,ymin)
\* and pixel (SCR_WDTH-1, SCR_HGHT-1) at (xmax,ymax) of its slot's bounds.
C11_Original ==
    \A s \in Slots : \A p \in WrittenCells(s) :
        /\ p = CellOf(0, 0) => AtCorner(img[s][p], 1, 3)
        /\ p = CellOf(G.SCR_WDTH - 1, G.SCR_HGHT - 1) => AtCorner(img[s][p], 2, 4)

\* C11 amended: in every frame a worker evaluates pixel (px,py) at
\* (xmin + px*(xmax-xmin)/SCR_WDTH, ymin + py*(ymax-ymin)/SCR_HGHT): pixel (0,0)
\* at (xmin,ymin), and the last pixel one pixel step short of (xmax,ymax).
C11_LinearOverWidth ==
    \A s \in Slots : \A p \in WrittenCells(s) :
        LET c  == img[s][p]
            px == p \div G.SCR_HGHT
            py == p % G.SCR_HGHT
        IN  /\ IsFraction(c.at[1], px, G.SCR_WDTH, c.b[1], c.b[2])
            /\ IsFraction(c.at[2], py, G.SCR_HGHT, c.b[3], c.b[4])
            /\ p = CellOf(0, 0) => AtCorner(c, 1, 3)
            /\ p = CellOf(G.SCR_WDTH - 1, G.SCR_HGHT - 1) =>
                  (c.at[1] # c.b[2] /\ c.at[2] # c.b[4])

\* A worker has written the last pixel of a frame issued by the render loop.
C11_Witness ==
    /\ S.count > THREADS
    /\ \E s \in Slots :
          /\ CellOf(G.SCR_WDTH - 1, G.SCR_HGHT - 1) \in WrittenCells(s)
          /\ img[s][CellOf(0, 0)].b = BoundsOf(data[s])
          /\ img[s][CellOf(0, 0)].b = img[s][CellOf(G.SCR_WDTH - 1, G.SCR_HGHT - 1)].b
          /\ BoundsOf(data[s]) = BoundsOf(S)

(***************************************************************************)
(* Claims about startup and the exit paths (checked under Spec)            *)
(***************************************************************************)
\* The bounds derived from the flags by lines 184-187 are a non-empty rectangle.
DerivedValid == G.XMIN < G.XMAX /\ G.YMIN < G.YMAX

\* C12 as stated: the derived bounds are checked for xmin < xmax and ymin < ymax
\* after the derivation, so no slot is ever issued from bounds that violate it.
C12_Original == S.count > 0 => DerivedValid

\* C13 as stated: when the present of frame k fails the process ends at once with
\* a non-zero exit code, frames 0..k-1 presented and THREADS + k advances made and
\* nothing after; when all FRAMES presents have succeeded the exit code is 0.
C13_Original ==
    /\ pc = "exit1" => (Len(shown) = i /\ i < FRAMES /\ S.count = THREADS + i)
    /\ (pc \in Ended /\ Len(shown) = FRAMES) => pc = "exit0"

\* Some worker has been created and not joined: it computes, or has ended unjoined.
WorkersLeft == {h \in Handles : thr[h].st # "free"}

\* C14 as stated: however the render loop ends, every slot is awaited once more,
\* so no worker is in flight when main returns (with 0 or with 1).
C14_Original == pc \in {"exit0", "exit1"} => WorkersLeft = {}

\* C14 amended: when the render loop has run all FRAMES frames every slot is
\* joined once more, so no worker is left when the buffers are released (line
\* 233) and main returns 0; a failed present returns 1 without joining.
C14_DrainedAtTeardown ==
    /\ (pc = "drain" /\ i = THREADS) => WorkersLeft = {}
    /\ pc = "exit0" => (WorkersLeft = {} /\ Len(shown) = FRAMES)

\* main has returned 0 after FRAMES frames and the final joins.
C14_Witness == pc = "exit0" /\ S.count = THREADS + FRAMES

\* Every buffer presented so far held a frame that a worker had completed.
ShownCompleted == \A k \in 1 .. Len(shown) : NoBounds \notin shown[k].bounds

\* C15 as stated: after a failed worker creation the render loop goes on, the
\* process is not ended by the failure, and the slot's buffer is presented with
\* the contents of its last completed frame.
C15_Original == failed => (pc # "crashed" /\ ShownCompleted)

(***************************************************************************)
(* Claims about the progression and the slots' snapshots (under Spec)      *)
(***************************************************************************)
\* The step is one whole call of setScale by main: the statics advance once and
\* are copied to one slot, and no worker moves in the same step.
MainAdvances ==
    /\ pc \in {"start_scale", "rescale"}
    /\ pc' \in {"start_create", "create"}
    /\ S'.count = S.count + 1
    /\ \E s \in Slots : /\ BoundsOf(data'[s]) = BoundsOf(S')
                        /\ \A t \in Slots \ {s} : data'[t] = data[t]
    /\ thr' = thr /\ img' = img

\* The cells written in this step were computed from the snapshot of their slot.
WrittenFromSnapshot ==
    \A s \in Slots : \A p \in DOMAIN img[s] :
        img'[s][p] # img[s][p] =>
            /\ img'[s][p].b = BoundsOf(data[s])
            /\ IsFraction(img'[s][p].at[1], p \div G.SCR_HGHT, G.SCR_WDTH,
                          data[s].xmin, data[s].xmax)
            /\ IsFraction(img'[s][p].at[2], p % G.SCR_HGHT, G.SCR_HGHT,
                          data[s].ymin, data[s].ymax)

\* C16: the progression state (the statics of setScale) changes only in whole
\* calls made by main, one at a time, and a worker's step leaves the statics and
\* every snapshot alone and computes from the snapshot of its own slot only.
C16_OnlyMainAdvances ==
    [][/\ (S' # S \/ data' # data) => MainAdvances
       /\ (thr' # thr \/ img' # img) => (S' = S /\ data' = data)
       /\ (pc \notin {"parse", "abort"}) => WrittenFromSnapshot]_vars

\* A worker is in the middle of a frame whose bounds the progression has left.
C16_Witness ==
    /\ S.count > THREADS
    /\ \E h \in Handles : /\ thr[h].st = "run"
                          /\ thr[h].px > 0
                          /\ BoundsOf(data[thr[h].slot]) # BoundsOf(S)

\* The number of setScale calls main has made when it stands at pc with index i:
\* one per pthread_create of the startup loop and of the render loop.
IssuesSoFar ==
    CASE pc = "parse"        -> 0
      [] pc = "abort"        -> 0
      [] pc = "start_scale"  -> i
      [] pc = "start_create" -> i + 1
      [] pc = "create"       -> THREADS + i + 1
      [] pc \in {"join", "draw", "flip", "rescale", "exit1"} -> THREADS + i
      [] pc \in {"drain", "exit0"} -> THREADS + FRAMES
      [] OTHER               -> S.count

\* The slot that advance n of the progression is issued to.
SlotOfAdvance(n) == (n - 1) % THREADS

\* Slot s holds, complete, the frame of advance n, and no presented frame has it.
ComputedNotShown(s, n) ==
    /\ \A p \in Cells : img[s][p].b = BoundsOf(Progression(n))
    /\ \A k \in 1 .. Len(shown) : BoundsOf(Progression(n)) \notin shown[k].bounds

\* C17: the progression is advanced exactly once per issue or re-issue of a slot
\* and never reset; frame k is taken from slot k mod THREADS; when the FRAMES
\* frames complete normally THREADS + FRAMES advances have been made, and the
\* last THREADS of them were computed but are never displayed.
C17_OneAdvancePerIssue ==
    /\ S.count = IssuesSoFar
    /\ S.count > 0 => BoundsOf(S) = BoundsOf(Progression(S.count))
    /\ \A k \in 1 .. Len(shown) :
          shown[k].frame = k - 1 /\ shown[k].slot = (k - 1) % THREADS
    /\ pc = "exit0" =>
          /\ S.count = THREADS + FRAMES
          /\ Len(shown) = FRAMES
          /\ \A n \in FRAMES + 1 .. FRAMES + THREADS :
                /\ \A k \in 1 .. Len(shown) :
                      BoundsOf(Progression(n)) \notin shown[k].bounds
                /\ ~failed => ComputedNotShown(SlotOfAdvance(n), n)

\* main has returned 0 after a run in which every creation succeeded.
C17_Witness == pc = "exit0" /\ ~failed /\ Len(shown) = FRAMES

(***************************************************************************)
(* Claims about termination (checked under SpecLive)                       *)
(***************************************************************************)
\* main waits in a pthread_join for a worker that has not ended yet.
Awaiting ==
    \/ pc = "join" /\ i < FRAMES /\ thr[thrds[JoinSlot(i)]].st = "run"
    \/ pc = "drain" /\ i < THREADS /\ thr[thrds[i]].st = "run"

\* C18: with every thread scheduled fairly and every creation and present
\* succeeding, each pthread_join eventually returns, and main eventually returns
\* 0 with exactly FRAMES frames presented and no worker left.
C18_RenderLoopTerminates ==
    /\ Awaiting ~> ~Awaiting
    /\ <>[](pc = "exit0" /\ Len(shown) = FRAMES /\ WorkersLeft = {})

\* main is blocked in the join of a frame of the render loop.
C18_Witness == pc = "join" /\ i > 0 /\ i < FRAMES /\ Awaiting

(***************************************************************************)
(* Claims about what a frame is computed from (checked under Spec)         *)
(***************************************************************************)
\* The slot whose snapshot the next statement of main writes, if it is a setScale.
SlotToWrite ==
    IF pc = "start_scale" THEN {i}
    ELSE IF pc = "rescale" THEN {ScaleSlot(i)}
    ELSE {}

\* The cells the worker with handle h has assigned so far in its frame: rows
\* before py, and the pixels before px of row py (lines 136-137).
CellsDone(h) ==
    {CellOf(x, y) : <<x, y>> \in
        {q \in (0 .. G.SCR_WDTH - 1) \X (0 .. G.SCR_HGHT - 1) :
            q[2] < thr[h].py \/ (q[2] = thr[h].py /\ q[1] < thr[h].px)}}

\* The worker with handle h has computed every cell so far from one snapshot, the
\* one its slot still holds.
SameBoundsSoFar(h) ==
    \A p \in CellsDone(h) : img[thr[h].slot][p].b = BoundsOf(data[thr[h].slot])

\* The buffer presented as frame k was computed, all of it, for one advance.
OneStep(k) == \E n \in 1 .. S.count : shown[k].bounds = {BoundsOf(Progression(n))}

\* C19 as stated: setScale writes the snapshot of slot s only while no worker for
\* slot s is in flight; so a worker computes every pixel of its frame from the
\* same bounds, and every buffer read for display was computed entirely for one
\* progression step.
C19_Original ==
    /\ \A s \in SlotToWrite : InFlight(s) = {}
    /\ \A h \in WorkersLeft : SameBoundsSoFar(h)
    /\ \A k \in 1 .. Len(shown) : OneStep(k)

(***************************************************************************)
(* Claims about the colour table (checked under Spec)                      *)
(***************************************************************************)
\* The indices of colorTable[MAX_ITER], line 53.
TableIndices == 0 .. MAX_ITER - 1

\* The place on the screen of pixel (x, y), as put_px addresses it.
ScreenCell(x, y) == y * G.SCR_WDTH + x

\* The step is one put_px of main's drawing loops.
IsDraw == pc = "draw" /\ (cur' # cur \/ pc' # pc)

\* C20: every lookup of the render loop indexes colorTable inside
\* [0, MAX_ITER): a stored count below MAX_ITER picks its own entry, a count of
\* MAX_ITER (a point that did not escape) picks entry 0.
C20_IndexInRange ==
    /\ [](\A p \in DOMAIN screen : screen[p].idx \in TableIndices)
    /\ [][IsDraw =>
            LET c   == img[DrawSlot(i)][CellOf(cur.x, cur.y)]
                idx == screen'[ScreenCell(cur.x, cur.y)].idx
            IN  /\ idx \in TableIndices
                /\ c.itr < MAX_ITER => idx = c.itr
                /\ c.itr = MAX_ITER => idx = 0
                /\ \E q \in 0 .. c.itr : c.itr = q * MAX_ITER + idx]_vars

\* A pixel whose worker returned MAX_ITER has been drawn with entry 0.
C20_Witness ==
    /\ pc \in {"draw", "flip"}
    /\ \E x \in 0 .. G.SCR_WDTH - 1 : \E y \in 0 .. G.SCR_HGHT - 1 :
          /\ img[DrawSlot(i)][CellOf(x, y)].itr = MAX_ITER
          /\ img[DrawSlot(i)][CellOf(x, y)].b # NoBounds
          /\ screen[ScreenCell(x, y)].b = img[DrawSlot(i)][CellOf(x, y)].b
          /\ screen[ScreenCell(x, y)].idx = 0

====
